---- MODULE Spec2Model ----
(***************************************************************************)
(* Model of the sparse grid container of the aoc crate (aoc/src/grid.rs):  *)
(* Point, Direction, Grid<T> with its constructors, insert, get,           *)
(* check_inbounds, flood_fill, and the traversals: the full scan, the      *)
(* linear, row and column traversals, the neighbour traversals and their   *)
(* indexed forms; and of derive(EnumFromChar) of the aoc_macro crate       *)
(* (aoc_macro/src/lib.rs): the arms it expands to, the generated try_from  *)
(* and fmt.                                                                *)
(*                                                                         *)
(* Option<T> is modelled as a sequence of length 0 (None) or 1 (Some(v)).  *)
(* The HashMap<Point, T> is a function whose domain is the set of          *)
(* populated points.                                                       *)
(***************************************************************************)
EXTENDS Integers, Sequences, FiniteSets, TLC

\* Largest coordinates the caller passes to insert and flood_fill.
MaxX == 1
MaxY == 1
\* Largest number of rows, and of columns, of the grids that are traversed.
MaxSide == 3
\* The width of usize and isize, scaled down.
UsizeBits == 3
\* Largest number of distinct points insert is called with when the points
\* range over all of usize.
MaxInserts == 2
\* Largest number of calls of next() made after the one that returned None.
MaxPolls == 2
\* Largest number of variants of an enum EnumFromChar is derived for.
MaxVariants == 3

\* The cell type T: two distinct values.
Values == {"a", "b"}
\* The line terminator, and the other characters a text may hold: one that
\* converts to T and one that does not.
LF == "\n"
TextChars == {"a", "?"}
\* A character that takes two bytes in UTF-8 and does not convert to T.
EAcute == "é"

None == <<>>
Some(v) == <<v>>

Max(a, b) == IF a >= b THEN a ELSE b

\* usize::MAX, isize::MIN and isize::MAX at that width.
UsizeMax == 2 ^ UsizeBits - 1
IsizeMin == 0 - 2 ^ (UsizeBits - 1)
IsizeMax == 2 ^ (UsizeBits - 1) - 1

\* ------------------------------------------------------------------ Point

Point(x, y) == [x |-> x, y |-> y]

\* derive(PartialOrd, Ord): lexicographic by field order, x then y.
PointLt(p, q) == p.x < q.x \/ (p.x = q.x /\ p.y < q.y)

Vector2D(x, y) == [x |-> x, y |-> y]

\* Direction::DIRS, in declaration order.
DIRS == <<"North", "South", "East", "West">>

\* vector as it would be with y growing upward.
DirVectorYUp(d) ==
    CASE d = "North" -> Vector2D(0, 1)
      [] d = "South" -> Vector2D(0, -1)
      [] d = "East"  -> Vector2D(1, 0)
      [] d = "West"  -> Vector2D(-1, 0)

\* Direction::vector
DirVector(d) ==
    CASE d = "North" -> Vector2D(0, -1)
      [] d = "South" -> Vector2D(0, 1)
      [] d = "East"  -> Vector2D(1, 0)
      [] d = "West"  -> Vector2D(-1, 0)

\* Direction::opposite
Opposite(d) ==
    CASE d = "North" -> "South"
      [] d = "South" -> "North"
      [] d = "East"  -> "West"
      [] d = "West"  -> "East"

\* right_hand as it would be if it turned counter-clockwise.
RightHandCounterClockwise(d) ==
    CASE d = "North" -> "West"
      [] d = "South" -> "East"
      [] d = "East"  -> "North"
      [] d = "West"  -> "South"

\* Direction::right_hand
RightHand(d) ==
    CASE d = "North" -> "East"
      [] d = "South" -> "West"
      [] d = "East"  -> "South"
      [] d = "West"  -> "North"

\* Direction::left_hand
LeftHand(d) == Opposite(RightHand(d))

\* checked_add_signed as it would be if it wrapped around like wrapping_add_signed.
CheckedAddSignedWrapping(a, b) == Some((a + b) % (UsizeMax + 1))

\* usize::checked_add_signed: None when the sum is not a usize.
CheckedAddSigned(a, b) ==
    IF a + b < 0 \/ a + b > UsizeMax THEN None ELSE Some(a + b)

\* Point::offset_by: checked_add_signed on each component, None if either
\* is None.
OffsetBy(p, v) ==
    LET x == CheckedAddSigned(p.x, v.x)
        y == CheckedAddSigned(p.y, v.y)
    IN IF x = None \/ y = None THEN None ELSE Some(Point(x[1], y[1]))

\* Point::neighbors: DIRS filter_map offset_by, as the set the frontier is
\* extended with.
Neighbors(p) ==
    { OffsetBy(p, DirVector(DIRS[i]))[1] :
        i \in { j \in 1..Len(DIRS) : OffsetBy(p, DirVector(DIRS[j])) # None } }

\* ------------------------------------------------------------------- Grid

EmptyMap == [p \in {} |-> "a"]

\* Grid::new
New == [map |-> EmptyMap, width |-> 0, height |-> 0]

\* HashMap::insert on the map of the grid.
MapInsert(m, p, v) == [q \in (DOMAIN m) \cup {p} |-> IF q = p THEN v ELSE m[q]]

\* Grid::get
Get(g, p) == IF p \in DOMAIN g.map THEN Some(g.map[p]) ELSE None

\* check_inbounds as it would be if it asked for the cell to be populated.
CheckInboundsPopulated(g, p) == p \in DOMAIN g.map

\* Grid::check_inbounds
CheckInbounds(g, p) == p.x < g.width /\ p.y < g.height

\* insert as it would be with the bounds set from the point alone (no max).
InsertSetsBounds(g, p, v) ==
    [grid |-> [map    |-> MapInsert(g.map, p, v),
               width  |-> p.x + 1,
               height |-> p.y + 1],
     ret  |-> Get(g, p)]

\* insert as it would be with the 1 added after the max instead of before.
InsertGrowsBounds(g, p, v) ==
    [grid |-> [map    |-> MapInsert(g.map, p, v),
               width  |-> Max(g.width, p.x) + 1,
               height |-> Max(g.height, p.y) + 1],
     ret  |-> Get(g, p)]

\* insert as it would be if it returned the value now stored.
InsertReturnsNew(g, p, v) ==
    [grid |-> [map    |-> MapInsert(g.map, p, v),
               width  |-> Max(g.width, p.x + 1),
               height |-> Max(g.height, p.y + 1)],
     ret  |-> Some(v)]

\* usize + usize in a build without overflow checks: the sum wraps.
WrappingAdd(a, b) == (a + b) % (2 ^ UsizeBits)

\* usize + usize overflows: a build with overflow checks panics there.
AddOverflows(a, b) == a + b > UsizeMax

\* insert as it would be if it emptied the map before storing the value.
InsertClearsMap(g, p, v) ==
    [grid |-> [map    |-> MapInsert(EmptyMap, p, v),
               width  |-> Max(g.width, WrappingAdd(p.x, 1)),
               height |-> Max(g.height, WrappingAdd(p.y, 1))],
     ret  |-> Get(g, p)]

\* Grid::insert: the grid afterwards and the returned previous value. Where
\* point.x + 1 or point.y + 1 overflows, this is the build without overflow
\* checks; InsertPanics is the build with them.
Insert(g, p, v) ==
    [grid |-> [map    |-> MapInsert(g.map, p, v),
               width  |-> Max(g.width, WrappingAdd(p.x, 1)),
               height |-> Max(g.height, WrappingAdd(p.y, 1))],
     ret  |-> Get(g, p)]

\* Grid::insert in a build with overflow checks, for a point whose x + 1 or
\* y + 1 overflows: the grid as the panic leaves it. The width is assigned
\* before point.y + 1 is evaluated, the map is not reached.
InsertPanicGrid(g, p) ==
    IF AddOverflows(p.x, 1) THEN g
    ELSE [map |-> g.map, width |-> Max(g.width, p.x + 1), height |-> g.height]

RECURSIVE MaxRowLen(_)
MaxRowLen(rows) ==
    IF rows = <<>> THEN 0 ELSE Max(Len(Head(rows)), MaxRowLen(Tail(rows)))

\* from_2d_vec as it would be with x and y exchanged in the key.
From2dVecTransposed(input) ==
    [map    |-> [p \in UNION { { Point(y, x) : x \in 0..(Len(input[y + 1]) - 1) } :
                               y \in 0..(Len(input) - 1) }
                   |-> input[p.x + 1][p.y + 1]],
     width  |-> MaxRowLen(input),
     height |-> Len(input)]

\* from_2d_vec as it would be with the width taken from the first row alone.
From2dVecFirstRowWidth(input) ==
    [map    |-> [p \in UNION { { Point(x, y) : x \in 0..(Len(input[y + 1]) - 1) } :
                               y \in 0..(Len(input) - 1) }
                   |-> input[p.y + 1][p.x + 1]],
     width  |-> IF input = <<>> THEN 0 ELSE Len(input[1]),
     height |-> Len(input)]

\* Grid::from_2d_vec: row y, column x goes to Point { x, y }.
From2dVec(input) ==
    [map    |-> [p \in UNION { { Point(x, y) : x \in 0..(Len(input[y + 1]) - 1) } :
                               y \in 0..(Len(input) - 1) }
                   |-> input[p.y + 1][p.x + 1]],
     width  |-> MaxRowLen(input),
     height |-> Len(input)]

\* The manual grid of the example of from_2d_vec: a new grid into which
\* every input[y][x] is inserted at Point { x, y }, row after row.
RECURSIVE InsertCells(_, _, _, _)
InsertCells(g, input, y, x) ==
    IF y >= Len(input) THEN g
    ELSE IF x >= Len(input[y + 1]) THEN InsertCells(g, input, y + 1, 0)
    ELSE InsertCells(Insert(g, Point(x, y), input[y + 1][x + 1]).grid, input, y, x + 1)

ManualGrid(input) == InsertCells(New, input, 0, 0)

\* str::lines: the pieces between line terminators; a final empty piece is
\* not a line.
RECURSIVE LinesFrom(_, _)
LinesFrom(text, cur) ==
    IF text = <<>>
    THEN (IF cur = <<>> THEN <<>> ELSE <<cur>>)
    ELSE IF Head(text) = LF
         THEN <<cur>> \o LinesFrom(Tail(text), <<>>)
         ELSE LinesFrom(Tail(text), Append(cur, Head(text)))

Lines(text) == LinesFrom(text, <<>>)

\* T::try_from(char): Ok(value) as Some(value), Err as None.
TryFromChar(c) == IF c \in Values THEN Some(c) ELSE None

\* char::len_utf8: the bytes a character takes in a str.
Utf8Len(c) == IF c = EAcute THEN 2 ELSE 1

\* str::len of a line: its length in bytes.

RECURSIVE StrLen(_)
StrLen(line) == IF line = <<>> THEN 0 ELSE Utf8Len(Head(line)) + StrLen(Tail(line))

RECURSIVE MaxStrLen(_)
MaxStrLen(lines) ==
    IF lines = <<>> THEN 0 ELSE Max(StrLen(Head(lines)), MaxStrLen(Tail(lines)))

\* impl From<S> for Grid<T>: a character that does not convert leaves its
\* cell unpopulated.
FromText(text) ==
    LET lines == Lines(text)
    IN [map    |-> [p \in UNION { { Point(x, y) :
                                      x \in { i \in 0..(Len(lines[y + 1]) - 1) :
                                                TryFromChar(lines[y + 1][i + 1]) # None } } :
                                  y \in 0..(Len(lines) - 1) }
                      |-> TryFromChar(lines[p.y + 1][p.x + 1])[1]],
        width  |-> MaxStrLen(lines),
        height |-> Len(lines)]

\* -------------------------------------------------------------- full scan

\* Grid::iter
Iter == [next |-> Point(0, 0), current |-> Point(0, 0)]

\* next() of GridIter as it would be if it walked down each column before
\* moving to the next one.
RECURSIVE GridIterNextColumnMajor(_, _)
GridIterNextColumnMajor(g, iter) ==
    IF iter.next.x >= g.width
    THEN [iter |-> iter, val |-> None]
    ELSE LET val  == Get(g, iter.next)
             y1   == iter.next.y + 1
             nxt  == IF y1 >= g.height
                     THEN Point(iter.next.x + 1, 0)
                     ELSE Point(iter.next.x, y1)
             adv  == [next |-> nxt, current |-> iter.next]
         IN IF val # None
            THEN [iter |-> adv, val |-> val]
            ELSE GridIterNextColumnMajor(g, adv)

\* impl Iterator for GridIter: next(). Returns the iterator afterwards and
\* the yielded Option; an unpopulated cell is passed over by the recursive call.
RECURSIVE GridIterNext(_, _)
GridIterNext(g, iter) ==
    IF iter.next.y >= g.height
    THEN [iter |-> iter, val |-> None]
    ELSE LET val  == Get(g, iter.next)
             x1   == iter.next.x + 1
             nxt  == IF x1 >= g.width
                     THEN Point(0, iter.next.y + 1)
                     ELSE Point(x1, iter.next.y)
             adv  == [next |-> nxt, current |-> iter.next]
         IN IF val # None
            THEN [iter |-> adv, val |-> val]
            ELSE GridIterNext(g, adv)

\* impl GridIterator for GridIter: current_index()
GridIterCurrentIndex(iter) == iter.current

\* IndexedGridIter::next on the result r of the next() of the wrapped
\* iterator and the current_index() read after it.
IndexedNext(r, point) == IF r.val = None THEN None ELSE Some(<<point, r.val[1]>>)

\* ------------------------------------------------------ linear traversals

\* Grid::linear_iter
LinearIter(start, dir) == [next |-> Some(start), dir |-> dir, current |-> start]

\* row_iter as it would be if it walked down column `row`.
RowIterTransposed(row) ==
    [next |-> Some(Point(row, 0)), dir |-> "South", current |-> Point(row, 0)]

\* Grid::row_iter
RowIter(row) ==
    [next |-> Some(Point(0, row)), dir |-> "East", current |-> Point(0, row)]

\* Grid::col_iter
ColIter(col) ==
    [next |-> Some(Point(col, 0)), dir |-> "South", current |-> Point(col, 0)]

\* next() of GridLinearIter as it would be if it ended at the first
\* unpopulated cell.
RECURSIVE GridLinearIterNextStopsAtGap(_, _)
GridLinearIterNextStopsAtGap(g, iter) ==
    IF iter.next # None
    THEN LET next == iter.next[1]
         IN IF CheckInbounds(g, next)
            THEN [iter |-> [next    |-> OffsetBy(next, DirVector(iter.dir)),
                            dir     |-> iter.dir,
                            current |-> next],
                  val  |-> Get(g, next)]
            ELSE [iter |-> iter, val |-> None]
    ELSE [iter |-> iter, val |-> None]

\* impl Iterator for GridLinearIter: next().
RECURSIVE GridLinearIterNext(_, _)
GridLinearIterNext(g, iter) ==
    IF iter.next # None
    THEN LET next == iter.next[1]
         IN IF CheckInbounds(g, next)
            THEN LET val == Get(g, next)
                     adv == [next    |-> OffsetBy(next, DirVector(iter.dir)),
                             dir     |-> iter.dir,
                             current |-> next]
                 IN IF val # None
                    THEN [iter |-> adv, val |-> val]
                    ELSE GridLinearIterNext(g, adv)
            ELSE [iter |-> iter, val |-> None]
    ELSE [iter |-> iter, val |-> None]

\* impl GridIterator for GridLinearIter: current_index()
GridLinearIterCurrentIndex(iter) == iter.current

\* --------------------------------------------------- neighbour traversals

\* NEIGHBOR_VECS of neighbors_iter as it would be in clockwise order.
NeighborVecsClockwise ==
    <<Vector2D(0, -1), Vector2D(1, 0), Vector2D(0, 1), Vector2D(-1, 0)>>

\* NEIGHBOR_VECS of neighbors_iter as it would be with the vectors to the
\* north and to the west alone.
NeighborVecsNorthWest == <<Vector2D(0, -1), Vector2D(-1, 0)>>

\* NEIGHBOR_VECS of neighbors_iter
NeighborVecs ==
    <<Vector2D(0, -1), Vector2D(-1, 0), Vector2D(1, 0), Vector2D(0, 1)>>

\* NEIGHBOR_VECS of ortho_iter as it would be with the centre in it.
OrthoVecsWithCentre ==
    <<Vector2D(-1, -1), Vector2D(0, -1), Vector2D(1, -1),
      Vector2D(-1, 0),  Vector2D(0, 0),  Vector2D(1, 0),
      Vector2D(-1, 1),  Vector2D(0, 1),  Vector2D(1, 1)>>

\* NEIGHBOR_VECS of ortho_iter
OrthoVecs ==
    <<Vector2D(-1, -1), Vector2D(0, -1), Vector2D(1, -1),
      Vector2D(-1, 0),                   Vector2D(1, 0),
      Vector2D(-1, 1),  Vector2D(0, 1),  Vector2D(1, 1)>>

\* vecs.iter().filter_map(|&v| point.offset_by(v)).collect()
RECURSIVE FilterMapOffsetBy(_, _)
FilterMapOffsetBy(point, vecs) ==
    IF vecs = <<>> THEN <<>>
    ELSE OffsetBy(point, Head(vecs)) \o FilterMapOffsetBy(point, Tail(vecs))

\* Grid::neighbors_iter
NeighborsIter(point) ==
    [index |-> 0, neighbors |-> FilterMapOffsetBy(point, NeighborVecs)]

\* Grid::ortho_iter
OrthoIter(point) ==
    [index |-> 0, neighbors |-> FilterMapOffsetBy(point, OrthoVecs)]

\* next() of GridNeighbors as it would be if a call on an exhausted iterator
\* set the index back to 0.
GridNeighborsNextRestarts(g, iter) ==
    IF iter.index >= Len(iter.neighbors)
    THEN [iter |-> [index |-> 0, neighbors |-> iter.neighbors], val |-> None]
    ELSE LET rest == SelectSeq([k \in 1..(Len(iter.neighbors) - iter.index) |-> iter.index + k],
                               LAMBDA k : Get(g, iter.neighbors[k]) # None)
         IN IF rest = <<>>
            THEN [iter |-> [index |-> Len(iter.neighbors), neighbors |-> iter.neighbors],
                  val  |-> None]
            ELSE [iter |-> [index |-> rest[1], neighbors |-> iter.neighbors],
                  val  |-> Get(g, iter.neighbors[rest[1]])]

\* impl Iterator for GridNeighbors: next(). neighbors is indexed from 0 in
\* the code and from 1 here.
RECURSIVE GridNeighborsNext(_, _)
GridNeighborsNext(g, iter) ==
    IF iter.index >= Len(iter.neighbors)
    THEN [iter |-> iter, val |-> None]
    ELSE LET neighbor == iter.neighbors[iter.index + 1]
             val      == Get(g, neighbor)
             adv      == [index |-> iter.index + 1, neighbors |-> iter.neighbors]
         IN IF val # None
            THEN [iter |-> adv, val |-> val]
            ELSE GridNeighborsNext(g, adv)

\* current_index() of GridNeighbors as it would be with 2 subtracted from
\* the index.
GridNeighborsCurrentIndexStale(iter) ==
    LET i == Max(iter.index - 2, 0)
    IN iter.neighbors[i + 1]

\* impl GridIterator for GridNeighbors: current_index(), with
\* saturating_sub(1) on the index.
GridNeighborsCurrentIndex(iter) ==
    LET i == Max(iter.index - 1, 0)
    IN iter.neighbors[i + 1]

\* ------------------------------------------------------------- flood fill

\* BTreeSet::pop_first: the least point of the frontier.
PopFirst(fr) == CHOOSE p \in fr : \A q \in fr : q = p \/ PointLt(p, q)

\* The test as it would be without the comparison with replace.
EligibleAnyOccupancy(g, point, replace) == CheckInbounds(g, point)

\* The test as it would be without check_inbounds.
EligibleAnywhere(g, point, replace) == replace = Get(g, point)

\* The test of the loop body of flood_fill.
Eligible(g, point, replace) == CheckInbounds(g, point) /\ replace = Get(g, point)

\* The loop body as it would be if it wrote the cell without extending the
\* frontier.
FloodFillBodyNoSpread(g, rest, point, value, replace) ==
    IF Eligible(g, point, replace)
    THEN [grid     |-> Insert(g, point, value).grid,
          frontier |-> rest,
          wrote    |-> {point}]
    ELSE [grid |-> g, frontier |-> rest, wrote |-> {}]

\* The loop body as it would be if a point that is not eligible ended the
\* loop (break) instead of being passed over.
FloodFillBodyBreak(g, rest, point, value, replace) ==
    IF Eligible(g, point, replace)
    THEN [grid     |-> Insert(g, point, value).grid,
          frontier |-> rest \cup Neighbors(point),
          wrote    |-> {point}]
    ELSE [grid |-> g, frontier |-> {}, wrote |-> {}]

\* The body of the loop of flood_fill for the point taken from the frontier
\* (rest is the frontier without it).
FloodFillBody(g, rest, point, value, replace) ==
    IF Eligible(g, point, replace)
    THEN [grid     |-> Insert(g, point, value).grid,
          frontier |-> rest \cup Neighbors(point),
          wrote    |-> {point}]
    ELSE [grid |-> g, frontier |-> rest, wrote |-> {}]

\* --------------------------------------------------- derive(EnumFromChar)

\* A variant of the enum the derive is applied to. Its position in the enum
\* stands for its identifier; fields is the shape of its fields; attr_char is
\* the value of its #[char = ...] attribute and attr_init the tokens of its
\* #[init ...] attribute, each None when the attribute is absent.
Variant(fields, attr_char, attr_init) ==
    [fields |-> fields, attr_char |-> attr_char, attr_init |-> attr_init]

\* A value of the enum: the variant and the values of its fields.
EnumValue(ident, fields, args) == [ident |-> ident, fields |-> fields, args |-> args]

\* The arms one variant adds to the two matches, or the compile error.
ExpandVariant(ident, variant) ==
    IF variant.attr_char = None
    THEN [ok |-> TRUE, into_char_arms |-> <<>>, char_display_arms |-> <<>>]
    ELSE LET char_expr == variant.attr_char[1]
             arms(init) ==
                 [ok                |-> TRUE,
                  into_char_arms    |-> << [pat   |-> char_expr,
                                            value |-> EnumValue(ident, variant.fields, init)] >>,
                  char_display_arms |-> << [ident |-> ident, char |-> char_expr] >>]
             error == [ok |-> FALSE, into_char_arms |-> <<>>, char_display_arms |-> <<>>]
         IN IF variant.fields = "Unit"
            THEN (IF variant.attr_init # None THEN error ELSE arms(None))
            ELSE (IF variant.attr_init = None THEN error ELSE arms(variant.attr_init))

\* expand::expand_match_arms: the arms of the variants in declaration order;
\* the first variant in error ends the expansion.
RECURSIVE ExpandFrom(_, _)
ExpandFrom(variants, ident) ==
    IF ident > Len(variants)
    THEN [ok |-> TRUE, into_char_arms |-> <<>>, char_display_arms |-> <<>>]
    ELSE LET first == ExpandVariant(ident, variants[ident])
             rest  == ExpandFrom(variants, ident + 1)
         IN IF first.ok /\ rest.ok
            THEN [ok                |-> TRUE,
                  into_char_arms    |-> first.into_char_arms \o rest.into_char_arms,
                  char_display_arms |-> first.char_display_arms \o rest.char_display_arms]
            ELSE [ok |-> FALSE, into_char_arms |-> <<>>, char_display_arms |-> <<>>]

ExpandMatchArms(variants) == ExpandFrom(variants, 1)

\* try_from as it would be if unit variants had no arm in the match.
EnumTryFromSkipsUnit(into_char_arms, c) ==
    LET hits == { i \in 1..Len(into_char_arms) :
                    /\ into_char_arms[i].pat = c
                    /\ into_char_arms[i].value.fields # "Unit" }
    IN IF hits = {} THEN None
       ELSE Some(into_char_arms[CHOOSE i \in hits : \A j \in hits : i <= j].value)

\* The generated TryFrom<char>::try_from: the first arm whose pattern is c,
\* Ok(value) as Some(value); the arm `_` gives Err, as None.
EnumTryFrom(into_char_arms, c) ==
    LET hits == { i \in 1..Len(into_char_arms) : into_char_arms[i].pat = c }
    IN IF hits = {} THEN None
       ELSE Some(into_char_arms[CHOOSE i \in hits : \A j \in hits : i <= j].value)

\* The generated Display::fmt: the character of the first arm that matches
\* the variant of the value whatever its fields hold; the arm `_` gives ' '.
EnumDisplay(char_display_arms, value) ==
    LET hits == { i \in 1..Len(char_display_arms) :
                    char_display_arms[i].ident = value.ident }
    IN IF hits = {} THEN " "
       ELSE char_display_arms[CHOOSE i \in hits : \A j \in hits : i <= j].char

\* ------------------------------------------------------------------ state

VARIABLES
    grid,          \* the Grid<T> the program holds
    pc,            \* "idle", "flood_fill" (inside the loop), "iter" (an iterator is alive),
                   \* "any_order" (the comparison fill is running)
    frontier,      \* flood_fill: the BTreeSet<Point>
    source,        \* the constructor that built the grid, its input while the grid is
                   \* as built, and whether insert or flood_fill has been called since
    call,          \* the most recent call on the grid and its arguments
    pre,           \* the grid as it was when that call was made
    ret,           \* the value the most recent insert returned
    stored,        \* every point a value has been stored at
    written,       \* the points the current flood_fill has written
    iter,          \* the live iterator: a GridIter (pc = "iter"), a GridLinearIter
                   \* (pc = "linear_iter") or a GridNeighbors (pc = "neighbors")
    yielded,       \* what the live iterator has yielded: <<current_index, value>> pairs
    exhausted,     \* the live iterator has returned None
    alt_grid,      \* the grid of the comparison fill
    alt_frontier,  \* the frontier of the comparison fill
    applied,       \* the most recent call of a method of Point or Direction:
                   \* its receiver, its argument and what it returned
    processed,     \* flood_fill: the points taken from the frontier so far, and
                   \* those of them taken from it more than once
    polls,         \* the calls of next() made on the live iterator after the one
                   \* that returned None
    derived        \* the enum EnumFromChar was derived for, what the derive
                   \* expanded to, and the most recent call of try_from or fmt

vars == <<grid, pc, frontier, source, call, pre, ret, stored, written, iter, yielded,
          exhausted, alt_grid, alt_frontier, applied, processed, polls, derived>>

Points == [x : 0..MaxX, y : 0..MaxY]
Options == {None} \cup { Some(v) : v \in Values }

SeqsUpTo(S, n) == UNION { [1..k -> S] : k \in 0..n }

\* Inputs of from_2d_vec: up to MaxY + 1 rows of up to MaxX + 1 values.
Inputs2d == SeqsUpTo(SeqsUpTo(Values, MaxX + 1), MaxY + 1)

RECURSIVE Join(_, _)
Join(lines, last) ==
    IF lines = <<>> THEN <<>>
    ELSE IF Len(lines) = 1 THEN Head(lines) \o last
    ELSE Head(lines) \o <<LF>> \o Join(Tail(lines), last)

\* Inputs of From<S>: texts of up to MaxY + 1 lines of up to MaxX + 1
\* characters, with and without a terminator after the last line.
Texts == { Join(lines, last) :
             lines \in SeqsUpTo(SeqsUpTo(TextChars, MaxX + 1), MaxY + 1),
             last \in {<<>>, <<LF>>} }

Call(op, point, value, replace, again, first_changed) ==
    [op |-> op, point |-> point, value |-> value, replace |-> replace,
     again |-> again, first_changed |-> first_changed]

\* The state of applied before any method of Point or Direction was called.
NotApplied ==
    [op |-> "none", point |-> Point(0, 0), vec |-> Vector2D(0, 0), dir |-> "North",
     result |-> None]

\* flood_fill before it has taken a point from its frontier.
NotProcessed == [seen |-> {}, again |-> {}]

\* The state of derived before EnumFromChar was derived.
NotDerived ==
    [op |-> "none", decl |-> <<>>, ok |-> FALSE, into_char_arms |-> <<>>,
     char_display_arms |-> <<>>, c |-> " ", made |-> None, self |-> None,
     shown |-> None]

\* A call that takes no point, value or replace.
PlainCall(op) == Call(op, Point(0, 0), "a", None, FALSE, FALSE)

\* The rows of from_2d_vec and the text of From<S> are kept in fields of
\* their own: a field holds values of one type.
Source(ctor, input) ==
    [ctor    |-> ctor,
     rows    |-> IF ctor = "from_2d_vec" THEN input ELSE <<>>,
     text    |-> IF ctor = "from_text" THEN input ELSE <<>>,
     changed |-> FALSE]

Changed(src) == [ctor |-> src.ctor, rows |-> <<>>, text |-> <<>>, changed |-> TRUE]

Init ==
    /\ grid = New
    /\ pc = "idle"
    /\ frontier = {}
    /\ source = Source("new", <<>>)
    /\ call = PlainCall("new")
    /\ pre = New
    /\ ret = None
    /\ stored = {}
    /\ written = {}
    /\ processed = NotProcessed
    /\ iter = Iter
    /\ yielded = <<>>
    /\ exhausted = FALSE
    /\ polls = 0
    /\ alt_grid = New
    /\ alt_frontier = {}
    /\ applied = NotApplied
    /\ derived = NotDerived

\* The program builds its grid with from_2d_vec instead of new.
From2dVecCall(input) ==
    /\ pc = "idle"
    /\ call.op = "new"
    /\ grid' = From2dVec(input)
    /\ source' = Source("from_2d_vec", input)
    /\ call' = PlainCall("from_2d_vec")
    /\ stored' = UNION { { Point(x, y) : x \in 0..(Len(input[y + 1]) - 1) } :
                         y \in 0..(Len(input) - 1) }
    /\ UNCHANGED <<pc, frontier, pre, ret, written, processed, iter, yielded, exhausted, polls,
                   alt_grid, alt_frontier, applied, derived>>

\* The program builds its grid from text instead of new.
FromTextCall(text) ==
    /\ pc = "idle"
    /\ call.op = "new"
    /\ grid' = FromText(text)
    /\ source' = Source("from_text", text)
    /\ call' = PlainCall("from_text")
    /\ stored' = { p \in Points :
                     /\ p.y < Len(Lines(text))
                     /\ p.x < Len(Lines(text)[p.y + 1])
                     /\ Lines(text)[p.y + 1][p.x + 1] \in Values }
    /\ UNCHANGED <<pc, frontier, pre, ret, written, processed, iter, yielded, exhausted, polls,
                   alt_grid, alt_frontier, applied, derived>>

\* grid.insert(point, value)
InsertCall(point, value) ==
    /\ pc = "idle"
    /\ grid' = Insert(grid, point, value).grid
    /\ ret' = Insert(grid, point, value).ret
    /\ pre' = grid
    /\ source' = Changed(source)
    /\ call' = Call("insert", point, value, None, FALSE, FALSE)
    /\ stored' = stored \cup {point}
    /\ written' = {}
    /\ processed' = NotProcessed
    /\ UNCHANGED <<pc, frontier, iter, yielded, exhausted, polls, alt_grid, alt_frontier, applied, derived>>

\* grid.flood_fill(start, value, replace): up to the loop.
FloodFillCall(start, value, replace) ==
    /\ pc = "idle"
    /\ pc' = "flood_fill"
    /\ frontier' = {start}
    /\ pre' = grid
    /\ ret' = None
    /\ source' = Changed(source)
    /\ LET again == /\ call.op = "flood_fill"
                    /\ call.point = start
                    /\ call.value = value
                    /\ call.replace = replace
       IN call' = Call("flood_fill", start, value, replace, again, again /\ grid # pre)
    /\ written' = {}
    /\ processed' = NotProcessed
    /\ UNCHANGED <<grid, stored, iter, yielded, exhausted, polls, alt_grid, alt_frontier, applied, derived>>

\* One iteration of the loop of flood_fill.
FloodFillStep ==
    /\ pc = "flood_fill"
    /\ frontier # {}
    /\ LET point == PopFirst(frontier)
           r     == FloodFillBody(grid, frontier \ {point}, point, call.value, call.replace)
       IN /\ grid' = r.grid
          /\ frontier' = r.frontier
          /\ written' = written \cup r.wrote
          /\ stored' = stored \cup r.wrote
          /\ processed' = [seen  |-> processed.seen \cup {point},
                           again |-> processed.again \cup ({point} \cap processed.seen)]
    /\ UNCHANGED <<pc, source, call, pre, ret, iter, yielded, exhausted, polls,
                   alt_grid, alt_frontier, applied, derived>>

\* pop_first returns None: the loop ends and flood_fill returns.
FloodFillReturn ==
    /\ pc = "flood_fill"
    /\ frontier = {}
    /\ pc' = "idle"
    /\ UNCHANGED <<grid, frontier, source, call, pre, ret, stored, written, processed, iter,
                   yielded, exhausted, polls, alt_grid, alt_frontier, applied, derived>>

\* grid.iter()
IterCall ==
    /\ pc = "idle"
    /\ pc' = "iter"
    /\ iter' = Iter
    /\ yielded' = <<>>
    /\ exhausted' = FALSE
    /\ polls' = 0
    /\ call' = PlainCall("iter")
    /\ pre' = grid
    /\ ret' = None
    /\ written' = {}
    /\ processed' = NotProcessed
    /\ UNCHANGED <<grid, frontier, source, stored, alt_grid, alt_frontier, applied, derived>>

\* next() on the live iterator; the pair recorded is what indexed() reports.
IterNext ==
    /\ pc = "iter"
    /\ exhausted => polls < MaxPolls
    /\ LET r    == GridIterNext(grid, iter)
           item == IndexedNext(r, GridIterCurrentIndex(r.iter))
       IN /\ iter' = r.iter
          /\ IF item = None
             THEN exhausted' = TRUE /\ yielded' = yielded
             ELSE exhausted' = FALSE /\ yielded' = Append(yielded, item[1])
          /\ polls' = IF exhausted THEN polls + 1 ELSE polls
    /\ UNCHANGED <<grid, pc, frontier, source, call, pre, ret, stored, written, processed,
                   alt_grid, alt_frontier, applied, derived>>

\* The iterator goes out of scope; the grid may be changed again.
IterDrop ==
    /\ pc = "iter"
    /\ pc' = "idle"
    /\ iter' = Iter
    /\ yielded' = <<>>
    /\ exhausted' = FALSE
    /\ polls' = 0
    /\ UNCHANGED <<grid, frontier, source, call, pre, ret, stored, written, processed,
                   alt_grid, alt_frontier, applied, derived>>

Next ==
    \/ \E input \in Inputs2d : From2dVecCall(input)
    \/ \E text \in Texts : FromTextCall(text)
    \/ \E point \in Points, value \in Values : InsertCall(point, value)
    \/ \E start \in Points, value \in Values, replace \in Options :
           FloodFillCall(start, value, replace)
    \/ FloodFillStep
    \/ FloodFillReturn
    \/ IterCall
    \/ IterNext
    \/ IterDrop

Spec == Init /\ [][Next]_vars

\* The loop of flood_fill runs on: nothing else can delay an enabled step.
FairSpec == Spec /\ WF_vars(FloodFillStep) /\ WF_vars(FloodFillReturn)

\* ------------------------------------------------- fill in any order

\* After flood_fill has emptied its frontier, the same fill is run again on
\* the grid as it was before the call, with a frontier that gives up any of
\* its points next.
AnyOrderCall ==
    /\ pc = "flood_fill"
    /\ frontier = {}
    /\ pc' = "any_order"
    /\ alt_grid' = pre
    /\ alt_frontier' = {call.point}
    /\ UNCHANGED <<grid, frontier, source, call, pre, ret, stored, written, processed, iter,
                   yielded, exhausted, polls, applied, derived>>

AnyOrderStep ==
    /\ pc = "any_order"
    /\ \E point \in alt_frontier :
          LET r == FloodFillBody(alt_grid, alt_frontier \ {point}, point,
                                 call.value, call.replace)
          IN /\ alt_grid' = r.grid
             /\ alt_frontier' = r.frontier
    /\ UNCHANGED <<grid, pc, frontier, source, call, pre, ret, stored, written, processed, iter,
                   yielded, exhausted, polls, applied, derived>>

AnyOrderReturn ==
    /\ pc = "any_order"
    /\ alt_frontier = {}
    /\ pc' = "idle"
    /\ alt_grid' = New
    /\ UNCHANGED <<grid, frontier, source, call, pre, ret, stored, written, processed, iter,
                   yielded, exhausted, polls, alt_frontier, applied, derived>>

NextAnyOrder ==
    \/ Next
    \/ AnyOrderCall
    \/ AnyOrderStep
    \/ AnyOrderReturn

SpecAnyOrder == Init /\ [][NextAnyOrder]_vars

\* ------------------------------------------------------------- traversals

Directions == { DIRS[i] : i \in 1..Len(DIRS) }

\* The points and the row and column indices the traversals are called with.
SidePoints == [x : 0..(MaxSide - 1), y : 0..(MaxSide - 1)]
SideIndices == 0..(MaxSide - 1)

\* The centres of the neighbour traversals: the points above and the corners
\* of the coordinate space, where the fewest neighbours exist.
Centres == SidePoints \cup [x : {0, UsizeMax}, y : {0, UsizeMax}]

\* The grids that are traversed: built by from_2d_vec from up to MaxSide rows
\* of up to MaxSide values, or from a text of up to MaxSide lines of up to
\* MaxSide characters.
TraverseInputs == SeqsUpTo(SeqsUpTo(Values, MaxSide), MaxSide)
TraverseTexts ==
    { Join(lines, <<>>) : lines \in SeqsUpTo(SeqsUpTo(TextChars, MaxSide), MaxSide) }

InitTraverse ==
    /\ \/ \E input \in TraverseInputs :
             grid = From2dVec(input) /\ source = Source("from_2d_vec", input)
       \/ \E text \in TraverseTexts :
             grid = FromText(text) /\ source = Source("from_text", text)
    /\ pc = "idle"
    /\ frontier = {}
    /\ call = PlainCall(source.ctor)
    /\ pre = New
    /\ ret = None
    /\ stored = DOMAIN grid.map
    /\ written = {}
    /\ processed = NotProcessed
    /\ iter = Iter
    /\ yielded = <<>>
    /\ exhausted = FALSE
    /\ polls = 0
    /\ alt_grid = New
    /\ alt_frontier = {}
    /\ applied = NotApplied
    /\ derived = NotDerived

\* What the creation of a traversal leaves of the previous one: nothing
\* yielded and not exhausted.
Fresh ==
    /\ yielded' = <<>>
    /\ exhausted' = FALSE
    /\ polls' = 0
    /\ pre' = grid
    /\ ret' = None
    /\ written' = {}
    /\ processed' = NotProcessed
    /\ UNCHANGED <<grid, frontier, source, stored, alt_grid, alt_frontier, applied, derived>>

\* A call that takes a point and nothing else: the start or the centre of a
\* traversal, or the first cell of the row or column traversed.
PointCall(op, point) == Call(op, point, "a", None, FALSE, FALSE)

\* grid.linear_iter(start, dir)
LinearIterCall(start, dir) ==
    /\ pc = "idle"
    /\ pc' = "linear_iter"
    /\ iter' = LinearIter(start, dir)
    /\ call' = PointCall("linear_iter", start)
    /\ Fresh

\* grid.row_iter(row)
RowIterCall(row) ==
    /\ pc = "idle"
    /\ pc' = "linear_iter"
    /\ iter' = RowIter(row)
    /\ call' = PointCall("row_iter", Point(0, row))
    /\ Fresh

\* grid.col_iter(col)
ColIterCall(col) ==
    /\ pc = "idle"
    /\ pc' = "linear_iter"
    /\ iter' = ColIter(col)
    /\ call' = PointCall("col_iter", Point(col, 0))
    /\ Fresh

\* grid.neighbors_iter(point)
NeighborsIterCall(point) ==
    /\ pc = "idle"
    /\ pc' = "neighbors"
    /\ iter' = NeighborsIter(point)
    /\ call' = PointCall("neighbors_iter", point)
    /\ Fresh

\* grid.ortho_iter(point)
OrthoIterCall(point) ==
    /\ pc = "idle"
    /\ pc' = "neighbors"
    /\ iter' = OrthoIter(point)
    /\ call' = PointCall("ortho_iter", point)
    /\ Fresh

\* next() on the live GridLinearIter; the pair recorded is what indexed() reports.
LinearIterNext ==
    /\ pc = "linear_iter"
    /\ exhausted => polls < MaxPolls
    /\ LET r    == GridLinearIterNext(grid, iter)
           item == IndexedNext(r, GridLinearIterCurrentIndex(r.iter))
       IN /\ iter' = r.iter
          /\ IF item = None
             THEN exhausted' = TRUE /\ yielded' = yielded
             ELSE exhausted' = FALSE /\ yielded' = Append(yielded, item[1])
          /\ polls' = IF exhausted THEN polls + 1 ELSE polls
    /\ UNCHANGED <<grid, pc, frontier, source, call, pre, ret, stored, written, processed,
                   alt_grid, alt_frontier, applied, derived>>

\* next() on the live GridNeighbors; the pair recorded is what indexed() reports.
NeighborsNext ==
    /\ pc = "neighbors"
    /\ exhausted => polls < MaxPolls
    /\ LET r    == GridNeighborsNext(grid, iter)
           item == IndexedNext(r, GridNeighborsCurrentIndex(r.iter))
       IN /\ iter' = r.iter
          /\ IF item = None
             THEN exhausted' = TRUE /\ yielded' = yielded
             ELSE exhausted' = FALSE /\ yielded' = Append(yielded, item[1])
          /\ polls' = IF exhausted THEN polls + 1 ELSE polls
    /\ UNCHANGED <<grid, pc, frontier, source, call, pre, ret, stored, written, processed,
                   alt_grid, alt_frontier, applied, derived>>

NextTraverse ==
    \/ IterCall
    \/ IterNext
    \/ \E start \in SidePoints, dir \in Directions : LinearIterCall(start, dir)
    \/ \E row \in SideIndices : RowIterCall(row)
    \/ \E col \in SideIndices : ColIterCall(col)
    \/ LinearIterNext
    \/ \E point \in Centres : NeighborsIterCall(point)
    \/ \E point \in Centres : OrthoIterCall(point)
    \/ NeighborsNext

\* Traversals of a grid as it was built.
SpecTraverse == InitTraverse /\ [][NextTraverse]_vars

\* ------------------------------------------- methods of Point and Direction

UsizePoints == [x : 0..UsizeMax, y : 0..UsizeMax]
IsizeVectors == [x : IsizeMin..IsizeMax, y : IsizeMin..IsizeMax]

Application(op, point, vec, dir, result) ==
    [op |-> op, point |-> point, vec |-> vec, dir |-> dir, result |-> result]

\* A method of Point or Direction changes nothing of the grid.
NoGridChange ==
    UNCHANGED <<grid, pc, frontier, source, call, pre, ret, stored, written, processed, iter,
                yielded, exhausted, polls, alt_grid, alt_frontier, derived>>

\* The methods take self by reference and keep no state, so a call returns
\* the same whatever was called before it: a behaviour is one call.

\* point.offset_by(vec), for any point and vector
OffsetByCall ==
    /\ applied = NotApplied
    /\ \E point \in UsizePoints, vec \in IsizeVectors :
          applied' = Application("offset_by", point, vec, "North", OffsetBy(point, vec))
    /\ NoGridChange

\* dir.vector(), for any direction
VectorCall ==
    /\ applied = NotApplied
    /\ \E dir \in Directions :
          applied' = Application("vector", Point(0, 0), Vector2D(0, 0), dir, DirVector(dir))
    /\ NoGridChange

\* dir.opposite(), for any direction
OppositeCall ==
    /\ applied = NotApplied
    /\ \E dir \in Directions :
          applied' = Application("opposite", Point(0, 0), Vector2D(0, 0), dir, Opposite(dir))
    /\ NoGridChange

\* dir.right_hand(), for any direction
RightHandCall ==
    /\ applied = NotApplied
    /\ \E dir \in Directions :
          applied' = Application("right_hand", Point(0, 0), Vector2D(0, 0), dir,
                                 RightHand(dir))
    /\ NoGridChange

\* dir.left_hand(), for any direction
LeftHandCall ==
    /\ applied = NotApplied
    /\ \E dir \in Directions :
          applied' = Application("left_hand", Point(0, 0), Vector2D(0, 0), dir,
                                 LeftHand(dir))
    /\ NoGridChange

NextApply ==
    \/ OffsetByCall
    \/ VectorCall
    \/ OppositeCall
    \/ RightHandCall
    \/ LeftHandCall

\* Calls of the methods of Point and Direction, on every receiver and argument.
SpecApply == Init /\ [][NextApply]_vars

\* ------------------------------------------------------- grids from text

\* The characters of the texts: those of TextChars, a second one that
\* converts to T, and one that takes more than one byte.
WideChars == TextChars \cup {"b", EAcute}

\* Texts of up to MaxY + 1 lines of up to MaxX + 1 characters of WideChars,
\* with and without a terminator after the last line.
WideTexts == { Join(lines, last) :
                 lines \in SeqsUpTo(SeqsUpTo(WideChars, MaxX + 1), MaxY + 1),
                 last \in {<<>>, <<LF>>} }

NextText == \E text \in WideTexts : FromTextCall(text)

\* The program builds its grid from any text.
SpecText == Init /\ [][NextText]_vars

\* ---------------------------------------------------- insert at any point

\* grid.insert(point, value) in a build with overflow checks, for a point
\* whose x + 1 or y + 1 overflows: the call panics.
InsertPanics(point, value) ==
    /\ pc = "idle"
    /\ AddOverflows(point.x, 1) \/ AddOverflows(point.y, 1)
    /\ pc' = "panicked"
    /\ grid' = InsertPanicGrid(grid, point)
    /\ ret' = None
    /\ pre' = grid
    /\ source' = Changed(source)
    /\ call' = Call("insert", point, value, None, FALSE, FALSE)
    /\ written' = {}
    /\ processed' = NotProcessed
    /\ UNCHANGED <<frontier, stored, iter, yielded, exhausted, polls, alt_grid,
                   alt_frontier, applied, derived>>

\* insert is called with any representable point, in either build, until
\* MaxInserts points hold a value.
NextInsert ==
    \/ /\ Cardinality(stored) < MaxInserts
       /\ \E point \in UsizePoints, value \in Values : InsertCall(point, value)
    \/ /\ Cardinality(stored) < MaxInserts
       /\ \E point \in UsizePoints, value \in Values : InsertPanics(point, value)

SpecInsert == Init /\ [][NextInsert]_vars

\* ---------------------------------------------------- derive(EnumFromChar)

\* The enums the derive is applied to: up to MaxVariants variants of any
\* shape, each with or without the attributes char and init.
FieldShapes == {"Unit", "Unnamed", "Named"}
DeclaredChars == {"F", "B"}
InitTokens == {"10"}
Variants ==
    { Variant(fields, attr_char, attr_init) :
        fields \in FieldShapes,
        attr_char \in {None} \cup { Some(c) : c \in DeclaredChars },
        attr_init \in {None} \cup { Some(t) : t \in InitTokens } }
Declarations == SeqsUpTo(Variants, MaxVariants)

\* The characters try_from is called with: the declared ones and one that no
\* variant declares.
Chars == DeclaredChars \cup {"Z"}

\* The values of an enum: every variant, its fields holding the tokens of
\* init or other values.
EnumValues(decl) ==
    { EnumValue(i, decl[i].fields, args) :
        i \in 1..Len(decl), args \in {None} \cup { Some(t) : t \in InitTokens \cup {"5"} } }
    \ { v \in [ident : 1..Len(decl), fields : FieldShapes,
                args : {None} \cup { Some(t) : t \in InitTokens \cup {"5"} }] :
          (v.fields = "Unit") # (v.args = None) }

\* A derive, try_from or fmt changes nothing of the grid.
OnlyDerivedChanges ==
    UNCHANGED <<grid, pc, frontier, source, call, pre, ret, stored, written, processed,
                iter, yielded, exhausted, polls, alt_grid, alt_frontier, applied>>

\* #[derive(EnumFromChar)] on an enum: expand::enum_from_char
DeriveCall ==
    /\ derived.op = "none"
    /\ \E decl \in Declarations :
          LET arms == ExpandMatchArms(decl)
          IN derived' = [derived EXCEPT !.op = "derive", !.decl = decl, !.ok = arms.ok,
                                        !.into_char_arms = arms.into_char_arms,
                                        !.char_display_arms = arms.char_display_arms]
    /\ OnlyDerivedChanges

\* c.try_into() for the enum derived, for any character
TryFromCall ==
    /\ derived.op = "derive"
    /\ derived.ok
    /\ \E c \in Chars :
          derived' = [derived EXCEPT !.op = "try_from", !.c = c,
                                     !.made = EnumTryFrom(derived.into_char_arms, c)]
    /\ OnlyDerivedChanges

\* format!("{}", value), for the value try_from made or any value of the enum
FmtCall ==
    /\ derived.op \in {"derive", "try_from"}
    /\ derived.ok
    /\ \E value \in EnumValues(derived.decl) \cup { derived.made[i] : i \in 1..Len(derived.made) } :
          derived' = [derived EXCEPT !.op = "fmt", !.self = Some(value),
                                     !.shown = Some(EnumDisplay(derived.char_display_arms,
                                                                value))]
    /\ OnlyDerivedChanges

NextDerive ==
    \/ DeriveCall
    \/ TryFromCall
    \/ FmtCall

SpecDerive == Init /\ [][NextDerive]_vars

\* ----------------------------------------------------------------- claims

\* The rectangle of a grid, the occupancy of a cell and adjacency, stated
\* without the operations of the grid.
Rect(g) == [x : 0..(g.width - 1), y : 0..(g.height - 1)]
Occ(g, p) == IF p \in DOMAIN g.map THEN <<g.map[p]>> ELSE <<>>
Adjacent(p, q) ==
    \/ p.x = q.x /\ (p.y = q.y + 1 \/ q.y = p.y + 1)
    \/ p.y = q.y /\ (p.x = q.x + 1 \/ q.x = p.x + 1)
Open(g, p, replace) == p \in Rect(g) /\ Occ(g, p) = replace

RECURSIVE Grow(_, _, _)
Grow(g, replace, R) ==
    LET more == { q \in Rect(g) \ R :
                    Open(g, q, replace) /\ \E r \in R : Adjacent(r, q) }
    IN IF more = {} THEN R ELSE Grow(g, replace, R \cup more)

\* The in-bounds cells reachable from start by axis-aligned steps through
\* cells whose occupancy in g equals replace.
Region(g, start, replace) ==
    IF Open(g, start, replace) THEN Grow(g, replace, {start}) ELSE {}

Returned == pc = "idle" /\ call.op = "flood_fill"

\* C1: when flood_fill(start, value, replace) returns, the cells it has
\* written are exactly the region of start in the grid as it was before the
\* call, each of them holds value, and every other cell has the occupancy it
\* had before the call.
C1_FloodFillFillsRegion ==
    Returned =>
        LET R == Region(pre, call.point, call.replace)
        IN /\ written = R
           /\ \A p \in R : Occ(grid, p) = Some(call.value)
           /\ \A p \in ((DOMAIN grid.map) \cup (DOMAIN pre.map)) \ R :
                  Occ(grid, p) = Occ(pre, p)

\* A fill has returned that went round a corner: three cells written, the
\* fourth cell of the rectangle left alone.
C1_Witness ==
    /\ Returned
    /\ Cardinality(written) = 3
    /\ \E p \in Rect(pre) : p \notin written /\ Occ(grid, p) # Some(call.value)
    /\ \E p \in written : ~Adjacent(p, call.point) /\ p # call.point

\* C2: flood_fill terminates for every grid, start, value and replace: a
\* call that has entered its loop eventually returns.
C2_FloodFillTerminates == (pc = "flood_fill") ~> (pc = "idle")

\* C3: running flood_fill a second time in a row with identical arguments
\* changes nothing: throughout and after the second run the grid (cells,
\* width, height) is the grid the first run left.
C3_FloodFillIdempotent ==
    (call.op = "flood_fill" /\ call.again) => grid = pre

\* The second run has returned, after a first run that changed the grid.
C3_Witness ==
    /\ Returned
    /\ call.again
    /\ call.first_changed
    /\ Cardinality(DOMAIN grid.map) >= 2

\* C4: a fill that takes any point of its frontier next ends in the same
\* grid as flood_fill, which always takes the least point.
C4_FloodFillOrderIndependent ==
    (pc = "any_order" /\ alt_frontier = {}) => alt_grid = grid

\* Both fills have ended after writing three cells.
C4_Witness ==
    /\ pc = "any_order"
    /\ alt_frontier = {}
    /\ Cardinality(written) = 3

MaxOf(S) == CHOOSE n \in S : \A m \in S : m <= n

\* The tight bounding box of the populated points.
TightWidth(g) == IF DOMAIN g.map = {} THEN 0 ELSE 1 + MaxOf({ p.x : p \in DOMAIN g.map })
TightHeight(g) == IF DOMAIN g.map = {} THEN 0 ELSE 1 + MaxOf({ p.y : p \in DOMAIN g.map })

C6_InsertGet ==
    /\ call.op = "insert" =>
          /\ ret = Occ(pre, call.point)
          /\ Get(grid, call.point) = Some(call.value)
    /\ \A p \in Points \cup Rect(grid) : (Get(grid, p) = None) <=> (p \notin stored)

\* An insert has replaced a different value while another cell inside the
\* rectangle is unpopulated.
C6_Witness ==
    /\ call.op = "insert"
    /\ ret # None
    /\ ret # Some(call.value)
    /\ \E p \in Rect(grid) : Get(grid, p) = None

\* C7: insert at a point that is already in-bounds changes neither width nor
\* height; insert at (x, y) with x >= width sets width to x + 1, and with
\* y >= height sets height to y + 1.
C7_InsertBounds ==
    call.op = "insert" =>
        /\ call.point \in Rect(pre) => (grid.width = pre.width /\ grid.height = pre.height)
        /\ call.point.x >= pre.width => grid.width = call.point.x + 1
        /\ call.point.x < pre.width => grid.width = pre.width
        /\ call.point.y >= pre.height => grid.height = call.point.y + 1
        /\ call.point.y < pre.height => grid.height = pre.height

\* An insert right of the rectangle but not below it: the width grew to
\* x + 1 and the height stayed.
C7_Witness ==
    /\ call.op = "insert"
    /\ call.point.x >= pre.width
    /\ call.point.y + 1 < pre.height
    /\ grid.width = call.point.x + 1
    /\ grid.height = pre.height

\* C8: over any sequence of insert and flood_fill calls, width and height
\* never decrease.
C8_BoundsNeverShrink ==
    [][grid'.width >= grid.width /\ grid'.height >= grid.height]_vars

\* An insert at a point well inside the rectangle (x + 1 < width and
\* y + 1 < height) has left both bounds as they were.
C8_Witness ==
    /\ call.op = "insert"
    /\ call.point.x + 1 < pre.width
    /\ call.point.y + 1 < pre.height
    /\ grid.width = pre.width
    /\ grid.height = pre.height

\* C9: check_inbounds(p) is true if and only if p.x < width and
\* p.y < height, whether or not p is populated.
C9_CheckInbounds ==
    \A p \in Points \cup DOMAIN grid.map :
        CheckInbounds(grid, p) <=> (p.x < grid.width /\ p.y < grid.height)

\* Three points at once: in-bounds and populated, in-bounds and unpopulated,
\* out of bounds.
C9_Witness ==
    /\ \E p \in Points : CheckInbounds(grid, p) /\ p \in DOMAIN grid.map
    /\ \E p \in Points : CheckInbounds(grid, p) /\ p \notin DOMAIN grid.map
    /\ \E p \in Points : ~CheckInbounds(grid, p)

Rectangular(input) == \A i, j \in 1..Len(input) : Len(input[i]) = Len(input[j])
RowCount(input) == Len(input)
ColCount(input) == IF input = <<>> THEN 0 ELSE Len(input[1])

\* The cells of a rectangular input in row-major order: <<point, value>>.
RowMajor(input) ==
    [k \in 1..(RowCount(input) * ColCount(input)) |->
        LET x == (k - 1) % ColCount(input)
            y == (k - 1) \div ColCount(input)
        IN <<[x |-> x, y |-> y], input[y + 1][x + 1]>>]

\* C10: a grid built by from_2d_vec from a rectangular input of R rows and
\* C columns has width C and height R, and a full scan visits exactly the
\* R * C cells in row-major order, the value at row y, column x being the one
\* at point (x, y).
C10_From2dVecRowMajor ==
    (source.ctor = "from_2d_vec" /\ ~source.changed /\ Rectangular(source.rows)) =>
        /\ grid.width = ColCount(source.rows)
        /\ grid.height = RowCount(source.rows)
        /\ pc = "iter" =>
              /\ \A k \in 1..Len(yielded) :
                    k <= Len(RowMajor(source.rows)) /\ yielded[k] = RowMajor(source.rows)[k]
              /\ exhausted => yielded = RowMajor(source.rows)

\* The full scan of a grid built from two rows of two columns has ended.
C10_Witness ==
    /\ source.ctor = "from_2d_vec"
    /\ ~source.changed
    /\ Rectangular(source.rows)
    /\ RowCount(source.rows) = 2
    /\ ColCount(source.rows) = 2
    /\ source.rows[1][2] # source.rows[2][1]
    /\ pc = "iter"
    /\ exhausted

\* C11, as claimed: for every input, from_2d_vec(input) is equal (cells,
\* width, height) to a new grid into which every input[y][x] was inserted at
\* (x, y).
C11_From2dVecIsInserts ==
    (source.ctor = "from_2d_vec" /\ ~source.changed) => grid = ManualGrid(source.rows)

\* C11, amended: the two grids have the same cells and the same width, and
\* the height of from_2d_vec is the number of rows, never less than the
\* height the inserts give; the grids are equal exactly when the input has no
\* rows or its last row is not empty.
C11_From2dVecIsInsertsUnlessLastRowEmpty ==
    (source.ctor = "from_2d_vec" /\ ~source.changed) =>
        LET input  == source.rows
            manual == ManualGrid(input)
        IN /\ grid.map = manual.map
           /\ grid.width = manual.width
           /\ grid.height = Len(input)
           /\ grid.height >= manual.height
           /\ (grid = manual) <=> (input = <<>> \/ input[Len(input)] # <<>>)

\* Built from a ragged input of two rows whose last row is the shorter one
\* and holds a value: equal to the grid of the three inserts.
C11_Witness ==
    /\ source.ctor = "from_2d_vec"
    /\ ~source.changed
    /\ Len(source.rows) = 2
    /\ Len(source.rows[1]) = 2
    /\ Len(source.rows[2]) = 1
    /\ source.rows[1][1] # source.rows[2][1]
    /\ grid = ManualGrid(source.rows)
    /\ Cardinality(DOMAIN grid.map) = 3

\* The values of a sequence of <<point, value>> pairs.
ValuesOf(pairs) == [k \in 1..Len(pairs) |-> pairs[k][2]]

\* The values a grid holds at a sequence of points, leaving out the points
\* that hold none.
RECURSIVE PopulatedValues(_, _)
PopulatedValues(g, points) ==
    IF points = <<>> THEN <<>>
    ELSE Occ(g, Head(points)) \o PopulatedValues(g, Tail(points))

IsPrefix(s, t) == Len(s) <= Len(t) /\ \A k \in 1..Len(s) : s[k] = t[k]

\* A set of points as a sequence ordered by y, then by x.
RECURSIVE ByRowThenColumn(_)
ByRowThenColumn(S) ==
    IF S = {} THEN <<>>
    ELSE LET p == CHOOSE p \in S :
                     \A q \in S : p.y < q.y \/ (p.y = q.y /\ p.x <= q.x)
         IN <<p>> \o ByRowThenColumn(S \ {p})

UnitStep(d) ==
    CASE d = "North" -> [x |-> 0, y |-> -1]
      [] d = "South" -> [x |-> 0, y |-> 1]
      [] d = "East"  -> [x |-> 1, y |-> 0]
      [] d = "West"  -> [x |-> -1, y |-> 0]

\* The points p, p + step, p + 2 * step, ... up to the first one that has a
\* negative coordinate or is outside the rectangle of g.
RECURSIVE Ray(_, _, _)
Ray(g, p, step) ==
    IF p.x < 0 \/ p.y < 0 \/ p \notin Rect(g) THEN <<>>
    ELSE <<p>> \o Ray(g, [x |-> p.x + step.x, y |-> p.y + step.y], step)

\* C13: linear_iter(start, dir) yields, for k = 0, 1, 2, ..., the values of
\* the populated cells at start + k * vector(dir) for as long as that point is
\* inside the rectangle, passes over unpopulated cells inside the rectangle,
\* and ends at the first point outside the rectangle or with a negative
\* coordinate.
C13_LinearIterRay ==
    (pc = "linear_iter" /\ call.op = "linear_iter") =>
        LET expected == PopulatedValues(grid, Ray(grid, call.point, UnitStep(iter.dir)))
        IN /\ IsPrefix(ValuesOf(yielded), expected)
           /\ exhausted => ValuesOf(yielded) = expected

\* A traversal to the north from (1, 2) has ended at the negative
\* coordinate: it yielded the value at (1, 2), passed over unpopulated
\* (1, 1) and yielded the different value at (1, 0).
C13_Witness ==
    /\ pc = "linear_iter"
    /\ call.op = "linear_iter"
    /\ call.point = [x |-> 1, y |-> 2]
    /\ iter.dir = "North"
    /\ exhausted
    /\ Occ(grid, [x |-> 1, y |-> 1]) = None
    /\ Len(yielded) = 2
    /\ ValuesOf(yielded) = <<grid.map[[x |-> 1, y |-> 2]], grid.map[[x |-> 1, y |-> 0]]>>
    /\ yielded[1][2] # yielded[2][2]

\* The cells of row r from left to right and of column c from top to
\* bottom; none when the index is not inside the rectangle.
RowCells(g, r) ==
    IF r >= g.height THEN <<>> ELSE [k \in 1..g.width |-> [x |-> k - 1, y |-> r]]
ColCells(g, c) ==
    IF c >= g.width THEN <<>> ELSE [k \in 1..g.height |-> [x |-> c, y |-> k - 1]]

\* C14: row_iter(r) is linear_iter((0, r), East) and yields the populated
\* cells of row r from left to right; col_iter(c) is linear_iter((c, 0),
\* South) and yields the populated cells of column c from top to bottom; an
\* index that is not inside the rectangle yields nothing.
C14_RowAndColIter ==
    /\ \A r \in 0..MaxSide : RowIter(r) = LinearIter([x |-> 0, y |-> r], "East")
    /\ \A c \in 0..MaxSide : ColIter(c) = LinearIter([x |-> c, y |-> 0], "South")
    /\ (pc = "linear_iter" /\ call.op = "row_iter") =>
          LET expected == PopulatedValues(grid, RowCells(grid, call.point.y))
          IN /\ IsPrefix(ValuesOf(yielded), expected)
             /\ exhausted => ValuesOf(yielded) = expected
             /\ call.point.y >= grid.height => yielded = <<>>
    /\ (pc = "linear_iter" /\ call.op = "col_iter") =>
          LET expected == PopulatedValues(grid, ColCells(grid, call.point.x))
          IN /\ IsPrefix(ValuesOf(yielded), expected)
             /\ exhausted => ValuesOf(yielded) = expected
             /\ call.point.x >= grid.width => yielded = <<>>

\* row_iter(1) has ended after the three values of row 1, the value at
\* (0, 1) differing from the value at (1, 1).
C14_Witness ==
    /\ pc = "linear_iter"
    /\ call.op = "row_iter"
    /\ call.point.y = 1
    /\ exhausted
    /\ Len(yielded) = 3
    /\ ValuesOf(yielded) = <<grid.map[[x |-> 0, y |-> 1]], grid.map[[x |-> 1, y |-> 1]],
                             grid.map[[x |-> 2, y |-> 1]]>>
    /\ yielded[1][2] # yielded[2][2]

\* The four cardinal neighbours of p: north, west, east, south.
CardinalCells(p) ==
    <<[x |-> p.x, y |-> p.y - 1], [x |-> p.x - 1, y |-> p.y],
      [x |-> p.x + 1, y |-> p.y], [x |-> p.x, y |-> p.y + 1]>>

FullyPopulated(g) == DOMAIN g.map = Rect(g)
IsCorner(g, p) ==
    /\ g.width >= 2
    /\ g.height >= 2
    /\ p.x \in {0, g.width - 1}
    /\ p.y \in {0, g.height - 1}
IsInner(g, p) ==
    /\ 0 < p.x
    /\ p.x < g.width - 1
    /\ 0 < p.y
    /\ p.y < g.height - 1

\* C15: neighbors_iter(p) yields the values of the populated cells among
\* the four cardinal neighbours of p, each once, in the order north, west,
\* east, south (a neighbour with a negative coordinate holds nothing); on a
\* fully populated grid it yields 2 values for a corner and 4 for a cell
\* with all four neighbours inside the rectangle.
C15_NeighborsIter ==
    (pc = "neighbors" /\ call.op = "neighbors_iter") =>
        LET expected == PopulatedValues(grid, CardinalCells(call.point))
        IN /\ IsPrefix(ValuesOf(yielded), expected)
           /\ exhausted => ValuesOf(yielded) = expected
           /\ (exhausted /\ FullyPopulated(grid)) =>
                  /\ IsCorner(grid, call.point) => Len(yielded) = 2
                  /\ IsInner(grid, call.point) => Len(yielded) = 4

\* neighbors_iter of the centre of a fully populated grid of three rows and
\* three columns has ended after four values, the one to the west differing
\* from the one to the east.
C15_Witness ==
    /\ pc = "neighbors"
    /\ call.op = "neighbors_iter"
    /\ call.point = [x |-> 1, y |-> 1]
    /\ FullyPopulated(grid)
    /\ IsInner(grid, call.point)
    /\ exhausted
    /\ Len(yielded) = 4
    /\ yielded[2][2] = grid.map[[x |-> 0, y |-> 1]]
    /\ yielded[3][2] = grid.map[[x |-> 2, y |-> 1]]
    /\ yielded[2][2] # yielded[3][2]

\* The eight cells around p, row by row from top-left to bottom-right.
OrthoCells(p) ==
    <<[x |-> p.x - 1, y |-> p.y - 1], [x |-> p.x, y |-> p.y - 1], [x |-> p.x + 1, y |-> p.y - 1],
      [x |-> p.x - 1, y |-> p.y],                                 [x |-> p.x + 1, y |-> p.y],
      [x |-> p.x - 1, y |-> p.y + 1], [x |-> p.x, y |-> p.y + 1], [x |-> p.x + 1, y |-> p.y + 1]>>

\* C16: ortho_iter(p) yields the values of the populated cells among the
\* eight cells around p, each once, row by row from top-left to
\* bottom-right (a cell with a negative coordinate holds nothing), and never
\* the cell p itself.
C16_OrthoIter ==
    (pc = "neighbors" /\ call.op = "ortho_iter") =>
        LET expected == PopulatedValues(grid, OrthoCells(call.point))
        IN /\ IsPrefix(ValuesOf(yielded), expected)
           /\ exhausted => ValuesOf(yielded) = expected
           /\ \A k \in 1..Len(yielded) : yielded[k][1] # call.point

\* ortho_iter of the populated centre of a fully populated grid of three
\* rows and three columns has ended after eight values, not all the same.
C16_Witness ==
    /\ pc = "neighbors"
    /\ call.op = "ortho_iter"
    /\ call.point = [x |-> 1, y |-> 1]
    /\ FullyPopulated(grid)
    /\ IsInner(grid, call.point)
    /\ exhausted
    /\ Len(yielded) = 8
    /\ yielded[1][2] # yielded[8][2]
    /\ yielded[4][2] # yielded[5][2]

\* The cells a traversal goes through, in its order.
Candidates ==
    CASE call.op = "iter"           -> ByRowThenColumn(Rect(grid))
      [] call.op = "linear_iter"    -> Ray(grid, call.point, UnitStep(iter.dir))
      [] call.op = "row_iter"       -> RowCells(grid, call.point.y)
      [] call.op = "col_iter"       -> ColCells(grid, call.point.x)
      [] call.op = "neighbors_iter" -> CardinalCells(call.point)
      [] call.op = "ortho_iter"     -> OrthoCells(call.point)

\* The populated ones among a sequence of points, each with its value.
RECURSIVE PopulatedPairs(_, _)
PopulatedPairs(g, points) ==
    IF points = <<>> THEN <<>>
    ELSE (IF Head(points) \in DOMAIN g.map
          THEN << <<Head(points), g.map[Head(points)]>> >>
          ELSE <<>>) \o PopulatedPairs(g, Tail(points))

\* C17: for the full scan and the linear, row, column, neighbours and ortho
\* traversals, every pair (p, v) the indexed form yields has get(p) = v, and
\* the pairs are the populated cells the traversal goes through, in its
\* order, also when unpopulated cells were passed over just before v.
C17_IndexedPairs ==
    pc \in {"iter", "linear_iter", "neighbors"} =>
        /\ \A k \in 1..Len(yielded) : Get(grid, yielded[k][1]) = Some(yielded[k][2])
        /\ IsPrefix(yielded, PopulatedPairs(grid, Candidates))
        /\ exhausted => yielded = PopulatedPairs(grid, Candidates)

\* neighbors_iter of (1, 1) passed over the unpopulated cells to the north
\* and to the west and then yielded the cell to the east, reported at (2, 1).
C17_Witness ==
    /\ pc = "neighbors"
    /\ call.op = "neighbors_iter"
    /\ call.point = [x |-> 1, y |-> 1]
    /\ Occ(grid, [x |-> 1, y |-> 0]) = None
    /\ Occ(grid, [x |-> 0, y |-> 1]) = None
    /\ Len(yielded) = 1
    /\ yielded[1][1] = [x |-> 2, y |-> 1]
    /\ Occ(grid, [x |-> 2, y |-> 1]) = <<yielded[1][2]>>

\* C18: offset_by(p, v) is None if p.x + v.x < 0 or p.y + v.y < 0 or either
\* sum is above usize::MAX, and otherwise the point (p.x + v.x, p.y + v.y);
\* it never wraps around.
C18_OffsetByChecked ==
    applied.op = "offset_by" =>
        LET sx == applied.point.x + applied.vec.x
            sy == applied.point.y + applied.vec.y
        IN /\ (sx < 0 \/ sy < 0 \/ sx > UsizeMax \/ sy > UsizeMax) => applied.result = <<>>
           /\ (sx >= 0 /\ sy >= 0 /\ sx <= UsizeMax /\ sy <= UsizeMax) =>
                  applied.result = <<[x |-> sx, y |-> sy]>>

\* An offset whose y sum is a coordinate and whose x sum is above usize::MAX
\* has returned None.
C18_Witness ==
    /\ applied.op = "offset_by"
    /\ applied.point.x + applied.vec.x > UsizeMax
    /\ applied.point.y + applied.vec.y >= 0
    /\ applied.point.y + applied.vec.y <= UsizeMax
    /\ applied.result = <<>>

\* C19: vector maps North to (0, -1), South to (0, 1), East to (1, 0) and
\* West to (-1, 0); the vector of opposite(d) is the vector of d negated, and
\* opposite(opposite(d)) = d.
C19_VectorAndOpposite ==
    /\ applied.op = "vector" => applied.result = UnitStep(applied.dir)
    /\ applied.op = "opposite" =>
          /\ DirVector(applied.result).x = 0 - DirVector(applied.dir).x
          /\ DirVector(applied.result).y = 0 - DirVector(applied.dir).y
          /\ Opposite(applied.result) = applied.dir

\* opposite was called on East and returned West.
C19_Witness ==
    /\ applied.op = "opposite"
    /\ applied.dir = "East"
    /\ applied.result = "West"

\* One quarter turn clockwise, y growing downward: (x, y) goes to (-y, x).
QuarterTurn(v) == [x |-> 0 - v.y, y |-> v.x]

\* C20: right_hand turns clockwise (North, East, South, West, North);
\* left_hand(d) is opposite(right_hand(d)) and turns counter-clockwise;
\* left_hand(right_hand(d)) = d = right_hand(left_hand(d)), and four
\* right_hand turns give d.
C20_Turns ==
    /\ applied.op = "right_hand" =>
          /\ UnitStep(applied.result) = QuarterTurn(UnitStep(applied.dir))
          /\ applied.dir = "North" => applied.result = "East"
          /\ applied.dir = "East" => applied.result = "South"
          /\ applied.dir = "South" => applied.result = "West"
          /\ applied.dir = "West" => applied.result = "North"
          /\ LeftHand(applied.result) = applied.dir
          /\ RightHand(RightHand(RightHand(applied.result))) = applied.dir
    /\ applied.op = "left_hand" =>
          /\ applied.result = Opposite(RightHand(applied.dir))
          /\ QuarterTurn(UnitStep(applied.result)) = UnitStep(applied.dir)
          /\ RightHand(applied.result) = applied.dir

\* left_hand was called on North and returned West.
C20_Witness ==
    /\ applied.op = "left_hand"
    /\ applied.dir = "North"
    /\ applied.result = "West"

\* The number of characters of the longest of a sequence of lines.
LongestLine(lines) == MaxOf({0} \cup { Len(lines[i]) : i \in 1..Len(lines) })

\* C21: a grid built from text has one row per line and one cell per
\* character: the character at column x of line y populates (x, y) with its
\* converted value when it converts to T and leaves (x, y) unpopulated when
\* it does not, no other point is populated, height is the number of lines
\* and width is the number of characters of the longest line.
C21_FromTextCells ==
    call.op = "from_text" =>
        LET lines == Lines(source.text)
        IN /\ grid.height = Len(lines)
           /\ grid.width = LongestLine(lines)
           /\ \A y \in 0..(Len(lines) - 1) : \A x \in 0..(Len(lines[y + 1]) - 1) :
                 LET c == lines[y + 1][x + 1]
                 IN Occ(grid, Point(x, y)) = (IF c \in Values THEN <<c>> ELSE <<>>)
           /\ \A p \in DOMAIN grid.map : p.y < Len(lines) /\ p.x < Len(lines[p.y + 1])

\* C22: flood_fill declines without side effects: when start is out of bounds
\* or the occupancy of the start cell differs from replace, no cell is written
\* and the grid (every cell, width, height) stays as it was before the call,
\* while the call runs and when it has returned.
C22_FloodFillDeclines ==
    (call.op = "flood_fill" /\ ~Open(pre, call.point, call.replace)) =>
        /\ grid = pre
        /\ written = {}

\* flood_fill has returned from a start cell that is in bounds and holds a
\* value other than the one asked for, next to an unpopulated cell: nothing
\* changed.
C22_Witness ==
    /\ Returned
    /\ grid = pre
    /\ call.point = Point(0, 0)
    /\ Occ(pre, call.point) = <<"a">>
    /\ call.replace = <<"b">>
    /\ Point(1, 0) \in Rect(pre)
    /\ Occ(pre, Point(1, 0)) = <<>>

\* The variants of an enum that declare the character c.
DeclaredWith(decl, c) == { i \in 1..Len(decl) : decl[i].attr_char = <<c>> }

\* C23: for an enum the derive accepts, try_from(c) returns Ok of a variant
\* declared with #[char = c], of the shape of that variant (unit, tuple or
\* struct) and built with the arguments of its #[init], and returns Err when
\* no variant declares c; Display of a value of a variant that declares a
\* character renders that character, and the value try_from(c) made renders
\* as c.
C23_EnumFromChar ==
    derived.ok =>
        /\ derived.op = "try_from" =>
              IF DeclaredWith(derived.decl, derived.c) = {}
              THEN derived.made = <<>>
              ELSE /\ Len(derived.made) = 1
                   /\ derived.made[1].ident \in DeclaredWith(derived.decl, derived.c)
                   /\ derived.made[1].fields = derived.decl[derived.made[1].ident].fields
                   /\ derived.made[1].args = derived.decl[derived.made[1].ident].attr_init
        /\ derived.op = "fmt" =>
              /\ derived.decl[derived.self[1].ident].attr_char # <<>> =>
                    derived.shown = derived.decl[derived.self[1].ident].attr_char
              /\ derived.self = derived.made => derived.shown = <<derived.c>>

\* The enum of the test: a unit variant, a tuple variant declared with 'B' and
\* init(10), and a struct variant; 'B' was converted, gave the tuple variant
\* holding 10, and that value was rendered as 'B'.
C23_Witness ==
    /\ derived.op = "fmt"
    /\ Len(derived.decl) = 3
    /\ derived.decl[1].fields = "Unit"
    /\ derived.decl[2].fields = "Unnamed"
    /\ derived.decl[3].fields = "Named"
    /\ \A i \in 1..3 : derived.decl[i].attr_char # <<>>
    /\ derived.c = "B"
    /\ derived.made = << EnumValue(2, "Unnamed", <<"10">>) >>
    /\ derived.self = derived.made
    /\ derived.shown = <<"B">>

\* C24: during one flood_fill each point is taken from the frontier and
\* tested for eligibility at most once, however many times it was added.
C24_ProcessedOnce == call.op = "flood_fill" => processed.again = {}

\* C25: in every reachable state of a grid (any constructor, then any inserts
\* and flood_fills) every populated point is in bounds: get(p) is Some
\* implies check_inbounds(p).
C25_PopulatedInBounds ==
    \A p \in DOMAIN grid.map : Get(grid, p) # None => CheckInbounds(grid, p)

\* C26: flood_fill never changes width or height: it writes only to points
\* that are in bounds, and a candidate neighbour outside the rectangle is taken
\* from the frontier and passed over without being written.
C26_FloodFillKeepsBounds ==
    call.op = "flood_fill" =>
        /\ grid.width = pre.width
        /\ grid.height = pre.height
        /\ written \subseteq Rect(pre)
        /\ \A p \in (DOMAIN grid.map \cup DOMAIN pre.map) \ Rect(pre) :
              Occ(grid, p) = Occ(pre, p)

\* flood_fill has returned after writing every cell of a 2 x 2 rectangle; it
\* took neighbours outside the rectangle from its frontier and wrote none.
C26_Witness ==
    /\ Returned
    /\ pre.width = 2
    /\ pre.height = 2
    /\ written = Rect(pre)
    /\ \E p \in processed.seen : p \notin Rect(pre)
    /\ DOMAIN grid.map = Rect(pre)

\* C27: insert(p, v) changes only the cell at p: every other point q holds
\* after the call what it held before it (get(q) is the same).
C27_InsertFrame ==
    call.op = "insert" =>
        \A q \in (Points \cup DOMAIN grid.map \cup DOMAIN pre.map) \ {call.point} :
            Get(grid, q) = Occ(pre, q)

\* insert has stored 'b' at (1, 1) on a grid that held 'a' at (0, 0) and
\* nothing at (1, 0), and grew both bounds: the two other cells are as they were.
C27_Witness ==
    /\ pc = "idle"
    /\ call.op = "insert"
    /\ call.point = Point(1, 1)
    /\ call.value = "b"
    /\ pre.width = 1
    /\ pre.height = 1
    /\ Occ(pre, Point(0, 0)) = <<"a">>
    /\ grid.width = 2
    /\ grid.height = 2
    /\ Occ(grid, Point(0, 0)) = <<"a">>
    /\ Occ(grid, Point(1, 0)) = <<>>
    /\ Occ(grid, Point(1, 1)) = <<"b">>

\* C28: insert(p, v) completes without arithmetic overflow for every
\* representable point p, the largest coordinates included, and leaves
\* width > p.x and height > p.y.
C28_InsertNoOverflow ==
    /\ pc # "panicked"
    /\ call.op = "insert" =>
          /\ grid.width > call.point.x
          /\ grid.height > call.point.y

\* current_index of the live iterator, whichever traversal it is.
CurrentIndexOf(kind, it) ==
    CASE kind = "iter"        -> GridIterCurrentIndex(it)
      [] kind = "linear_iter" -> GridLinearIterCurrentIndex(it)
      [] kind = "neighbors"   -> GridNeighborsCurrentIndex(it)

\* C29: each traversal is fused: once next() of a full-scan, linear or
\* neighbour iterator has returned None, every later next() on it returns
\* None (nothing more is yielded) and current_index keeps reporting the same
\* point.
C29_Fused ==
    [][(exhausted /\ pc' = pc) =>
          /\ exhausted'
          /\ yielded' = yielded
          /\ CurrentIndexOf(pc', iter') = CurrentIndexOf(pc, iter)]_vars

\* A neighbour traversal that yielded two values and then None was asked
\* MaxPolls more times.
C29_Witness ==
    /\ pc = "neighbors"
    /\ exhausted
    /\ polls = MaxPolls
    /\ Len(yielded) = 2

\* C30: current_index of a neighbour iterator never indexes outside its
\* candidate list: neighbors_iter and ortho_iter build a list that is not
\* empty for every centre, and index.saturating_sub(1) is a position of it
\* before the first next(), after each next() and after exhaustion, on every
\* grid, the empty one included.
C30_CurrentIndexDefined ==
    pc = "neighbors" =>
        /\ Len(iter.neighbors) >= 1
        /\ iter.index >= 0
        /\ Max(iter.index - 1, 0) < Len(iter.neighbors)
        /\ GridNeighborsCurrentIndex(iter) \in UsizePoints

\* neighbors_iter at (0, 0) of the empty grid: two candidates, none of them
\* populated, next() has returned None more than once.
C30_Witness ==
    /\ pc = "neighbors"
    /\ call.op = "neighbors_iter"
    /\ call.point = Point(0, 0)
    /\ grid = New
    /\ Len(iter.neighbors) = 2
    /\ iter.index = 2
    /\ exhausted
    /\ polls >= 1

====
